---- MODULE Spec2Model ----
(***************************************************************************)
(* Model of the live code editor of src/App.tsx: three documents (html,    *)
(* css, js), each with its text, an undo stack and a redo stack, the       *)
(* active tab, the application view, the editor refresh key, the search    *)
(* state and the debounced preview; and of the Editor component of          *)
(* src/components/Editor.tsx: its two refs and its editable element.  Every *)
(* event handler is a function from the state (a record) to the state      *)
(* after the handler; an action applies one handler to the current state   *)
(* and then runs the effects of the render that follows.  Texts are        *)
(* sequences of one-character strings.                                     *)
(***************************************************************************)
EXTENDS Integers, Sequences, FiniteSets, TLC

VARIABLES
    code,              \* htmlCode, cssCode, jsCode          (App.tsx 23-25)
    undoStack,         \* html/css/jsUndoStack, front first  (App.tsx 40-42)
    redoStack,         \* html/css/jsRedoStack, front first  (App.tsx 43-45)
    activeTab,         \* App.tsx 27
    activeAppView,     \* App.tsx 30
    editorUpdateKey,   \* App.tsx 47
    searchTerm,        \* App.tsx 36
    searchResults,     \* App.tsx 37: [indices, currentResultIndex]
    lastSearchedTerm,  \* App.tsx 38
    srcDoc,            \* App.tsx 32: the composed preview document
    previewTimers,     \* App.tsx 67: the pending timeouts of the preview effect
    mounted,           \* the App component is mounted
    lastValueRef,      \* Editor.tsx 88
    isComposingRef,    \* Editor.tsx 89
    editorDiv,         \* Editor.tsx 191: the contentEditable element
    clipboardReads,    \* Editor.tsx 183: clipboard reads not yet settled
    highlighting       \* Editor.tsx 44-82: a call of applySyntaxHighlighting

vars == <<code, undoStack, redoStack, activeTab, activeAppView,
          editorUpdateKey, searchTerm, searchResults, lastSearchedTerm,
          srcDoc, previewTimers, mounted,
          lastValueRef, isComposingRef, editorDiv,
          clipboardReads, highlighting>>

----------------------------------------------------------------------------
(* Program constants and types *)

MAX_UNDO_STACK_SIZE == 50

(* the delay of the preview's setTimeout, in milliseconds *)
PreviewDelay == 300

Tabs == {"html", "css", "js"}

AppViews == {"editor", "savedProjects"}

NoResults == [indices |-> <<>>, currentResultIndex |-> -1]

(* No call of applySyntaxHighlighting is in progress: the calls made by a  *)
(* render run to their end within the render.                              *)
NoHighlighting == [text |-> <<>>, language |-> "html", highlightedText |-> <<>>,
                   rule |-> 0, pc |-> "idle"]

(* initialHtml, initialCss, initialJs come from ./constants, which is not  *)
(* among the sources; the documents are "created empty at process start". *)
initialCode == [t \in Tabs |-> <<>>]

----------------------------------------------------------------------------
(* Bounds of the model, the texts it types and the projects it loads *)

MaxDepth == 2       \* Spec: an edit is typed only while the undo stack is shorter
MaxUpdateKey == 3   \* cap on editorUpdateKey (undo, redo, load and import raise it)
MaxTextLen == 52    \* SpecDeep: longest text typed, one character at a time
MaxSearchDepth == 1 \* SpecSearch: as MaxDepth
MaxStackIn == 2     \* SpecCommit: longest stack a commit is applied to
MaxPreviewDepth == 2 \* SpecPreview: as MaxDepth
PreviewTick == 100  \* SpecPreview: milliseconds the clock advances in one step
MaxEditorDepth == 1 \* SpecEditor: as MaxDepth
MaxImportDepth == 1 \* SpecImport: as MaxDepth
MaxPasteDepth == 2  \* SpecPaste: as MaxDepth
MaxClipboardReads == 2 \* SpecPaste: clipboard reads pending at one time

DivHi == <<"<","d","i","v",">","h","i","<","/","d","i","v",">">>

DivHello == <<"<","d","i","v",">","h","e","l","l","o","<","/","d","i","v",">">>

Div == <<"d","i","v">>

Texts == {DivHi, DivHello}

DivDiv == <<"<","d","i","v",">","<","d","i","v",">">>

AAa == <<"A","A","a">>

Aa == <<"a","a">>

SearchTexts == {DivDiv, AAa}

Terms == {<<>>, Div, Aa}

AllTexts == Texts \cup {<<>>}

Projects == {[htmlCode |-> DivHi, cssCode |-> DivHi, jsCode |-> DivHello],
             [htmlCode |-> DivHello, cssCode |-> <<>>, jsCode |-> <<>>]}

----------------------------------------------------------------------------
(* The component state as one record *)

St == [code |-> code, undoStack |-> undoStack, redoStack |-> redoStack,
       activeTab |-> activeTab, activeAppView |-> activeAppView,
       editorUpdateKey |-> editorUpdateKey, searchTerm |-> searchTerm,
       searchResults |-> searchResults, lastSearchedTerm |-> lastSearchedTerm,
       srcDoc |-> srcDoc, previewTimers |-> previewTimers, mounted |-> mounted,
       lastValueRef |-> lastValueRef, isComposingRef |-> isComposingRef,
       editorDiv |-> editorDiv, clipboardReads |-> clipboardReads]

(* The template literal of setSrcDoc: its fixed parts around the three texts. *)
composeSrcDoc(c) ==
    << "<html><head><style id=\"project-css\">", c["css"],
       "</style></head><body><div id=\"project-html-content\">", c["html"],
       "</div><script id=\"project-js\" type=\"text/javascript\">", c["js"],
       "</script></body></html>" >>

(* the preview effect without its cleanup: the earlier timeout stays set *)
previewEffect_NoCleanup(before, after) ==
    IF after.code # before.code
    THEN [after EXCEPT !.previewTimers =
                           @ \cup {[code |-> after.code, elapsed |-> 0]}]
    ELSE after

(* the preview effect whose cleanup runs but which sets no new timeout *)
previewEffect_NoRestart(before, after) ==
    IF after.code # before.code
    THEN [after EXCEPT !.previewTimers = {}]
    ELSE after

(* useEffect on [htmlCode, cssCode, jsCode]: after a render that changed   *)
(* one of the texts the cleanup clears the timeout of the previous run and *)
(* a new timeout is set, whose callback holds the texts of this render.    *)
previewEffect(before, after) ==
    IF after.code # before.code
    THEN [after EXCEPT !.previewTimers = {[code |-> after.code, elapsed |-> 0]}]
    ELSE after

(* the callback of the timeout *)
previewTimeout(s, timer) ==
    [s EXCEPT !.srcDoc = composeSrcDoc(timer.code),
              !.previewTimers = @ \ {timer}]

(* App is unmounted: the cleanup of the preview effect clears its timeout. *)
unmount(s) == [s EXCEPT !.mounted = FALSE, !.previewTimers = {}]

(* The editable element holds a text and its markup: highlighted is TRUE   *)
(* when innerHTML is the output of applySyntaxHighlighting, FALSE when the *)
(* user has edited the element since.  textContent is the text the element *)
(* stands for: the text the user has edited it to, or the text rendered    *)
(* into it; the markup of a render and what Node.textContent reads from it *)
(* are in the Highlighter section.                                         *)
NoEditorDiv == [textContent |-> <<>>, highlighted |-> FALSE]

setEditorContent(s, newText) ==
    [s EXCEPT !.editorDiv = [textContent |-> newText, highlighted |-> TRUE],
              !.lastValueRef = newText]

(* useEffect on [value, forceUpdateKey, setEditorContent]: external changes *)
externalChangeEffect(s, value) ==
    IF value # s.lastValueRef THEN setEditorContent(s, value) ELSE s

(* useEffect on [language, setEditorContent, value] *)
contentEffect(s, value) == setEditorContent(s, value)

(* The effects of the Editor after a render of App.  The Editor is there   *)
(* in the editor view only; renderEditor returns an Editor without a key   *)
(* for every tab, so one instance with its refs serves the three tabs;     *)
(* setEditorContent changes with the language and the element ref.         *)
editorEffects(before, after) ==
    LET value == after.code[after.activeTab]
    IN  IF after.activeAppView # "editor"
        THEN [after EXCEPT !.lastValueRef = <<>>,
                           !.isComposingRef = FALSE,
                           !.editorDiv = NoEditorDiv]
        ELSE IF before.activeAppView # "editor"
        THEN contentEffect(
                 externalChangeEffect(
                     [after EXCEPT !.lastValueRef = value,
                                   !.isComposingRef = FALSE,
                                   !.editorDiv = NoEditorDiv], value), value)
        ELSE LET valueChanged == value # before.code[before.activeTab]
                 keyChanged == after.editorUpdateKey # before.editorUpdateKey
                 languageChanged == after.activeTab # before.activeTab
                 s1 == IF valueChanged \/ keyChanged \/ languageChanged
                       THEN externalChangeEffect(after, value)
                       ELSE after
             IN  IF languageChanged \/ valueChanged
                 THEN contentEffect(s1, value)
                 ELSE s1

renderEffects(before, after) ==
    editorEffects(before, previewEffect(before, after))

(* A handler runs while App is mounted; the render it causes runs the effects. *)
Apply(s) ==
    LET r == renderEffects(St, s)
    IN  /\ mounted
        /\ code' = r.code
        /\ undoStack' = r.undoStack
        /\ redoStack' = r.redoStack
        /\ activeTab' = r.activeTab
        /\ activeAppView' = r.activeAppView
        /\ editorUpdateKey' = r.editorUpdateKey
        /\ searchTerm' = r.searchTerm
        /\ searchResults' = r.searchResults
        /\ lastSearchedTerm' = r.lastSearchedTerm
        /\ srcDoc' = r.srcDoc
        /\ previewTimers' = r.previewTimers
        /\ lastValueRef' = r.lastValueRef
        /\ isComposingRef' = r.isComposingRef
        /\ editorDiv' = r.editorDiv
        /\ clipboardReads' = r.clipboardReads
        /\ UNCHANGED <<mounted, highlighting>>

(* Array.prototype.slice(0, n) *)
slice0(seq, n) == IF Len(seq) > n THEN SubSeq(seq, 1, n) ELSE seq

----------------------------------------------------------------------------
(* History handlers *)

(* pushToUndoStackInternal without the truncation to MAX_UNDO_STACK_SIZE *)
pushToUndoStackInternal_Unbounded(currentCodeValue, stack) ==
    IF Len(stack) > 0 /\ stack[1] = currentCodeValue
    THEN stack
    ELSE <<currentCodeValue>> \o stack

(* pushToUndoStackInternal without the test of the stack's front *)
pushToUndoStackInternal_NoGuard(currentCodeValue, stack) ==
    LET newStack == <<currentCodeValue>> \o stack
    IN  IF Len(newStack) > MAX_UNDO_STACK_SIZE
        THEN SubSeq(newStack, 1, MAX_UNDO_STACK_SIZE)
        ELSE newStack

(* The stack the setter leaves behind: unchanged on the early return. *)
pushToUndoStackInternal(currentCodeValue, stack) ==
    IF Len(stack) > 0 /\ stack[1] = currentCodeValue
    THEN stack
    ELSE LET newStack == <<currentCodeValue>> \o stack
         IN  IF Len(newStack) > MAX_UNDO_STACK_SIZE
             THEN SubSeq(newStack, 1, MAX_UNDO_STACK_SIZE)
             ELSE newStack

(* clearAllUndoRedoStacks that leaves out setJsRedoStack([]) *)
clearAllUndoRedoStacks_KeepsJsRedo(s) ==
    [s EXCEPT !.undoStack = [t \in Tabs |-> <<>>],
              !.redoStack = [t \in Tabs |-> IF t = "js" THEN s.redoStack[t] ELSE <<>>]]

clearAllUndoRedoStacks(s) ==
    [s EXCEPT !.undoStack = [t \in Tabs |-> <<>>],
              !.redoStack = [t \in Tabs |-> <<>>]]

(* handleChange that leaves out the set...RedoStack([]) *)
handleChange_KeepsRedo(s, tab, value) ==
    IF value # s.code[tab]
    THEN [s EXCEPT !.undoStack[tab] =
                        pushToUndoStackInternal(s.code[tab], s.undoStack[tab]),
                   !.code[tab] = value]
    ELSE s

(* handleChange without the test value !== code *)
handleChange_Unguarded(s, tab, value) ==
    [s EXCEPT !.undoStack[tab] =
                   pushToUndoStackInternal(s.code[tab], s.undoStack[tab]),
              !.code[tab] = value,
              !.redoStack[tab] = <<>>]

(* handleHtmlChange, handleCssChange, handleJsChange: the same body over   *)
(* the text and the stacks of their own document.                         *)
handleChange(s, tab, value) ==
    IF value # s.code[tab]
    THEN [s EXCEPT !.undoStack[tab] =
                        pushToUndoStackInternal(s.code[tab], s.undoStack[tab]),
                   !.code[tab] = value,
                   !.redoStack[tab] = <<>>]
    ELSE s

(* renderEditor whose js editor is bound to handleCssChange *)
renderEditor_JsToCss(s, value) ==
    CASE s.activeTab = "html" -> handleChange(s, "html", value)
      [] s.activeTab = "css"  -> handleChange(s, "css", value)
      [] s.activeTab = "js"   -> handleChange(s, "css", value)

(* renderEditor mounts one Editor, bound to the active tab's text and     *)
(* change handler.                                                        *)
renderEditor(s, value) ==
    CASE s.activeTab = "html" -> handleChange(s, "html", value)
      [] s.activeTab = "css"  -> handleChange(s, "css", value)
      [] s.activeTab = "js"   -> handleChange(s, "js", value)

(* handleUndo that leaves out setUndoStack(prev => prev.slice(1)) *)
handleUndo_KeepsUndo(s) ==
    LET tab == s.activeTab
        stack == s.undoStack[tab]
        codeNow == s.code[tab]
    IN  IF Len(stack) > 0
        THEN [s EXCEPT !.redoStack[tab] =
                            slice0(<<codeNow>> \o s.redoStack[tab], MAX_UNDO_STACK_SIZE),
                       !.code[tab] = Head(stack),
                       !.editorUpdateKey = s.editorUpdateKey + 1]
        ELSE s

(* handleUndo that puts the current text behind the redo stack, not in front *)
handleUndo_AppendsRedo(s) ==
    LET tab == s.activeTab
        stack == s.undoStack[tab]
        codeNow == s.code[tab]
    IN  IF Len(stack) > 0
        THEN [s EXCEPT !.redoStack[tab] =
                            slice0(s.redoStack[tab] \o <<codeNow>>, MAX_UNDO_STACK_SIZE),
                       !.code[tab] = Head(stack),
                       !.undoStack[tab] = Tail(stack),
                       !.editorUpdateKey = s.editorUpdateKey + 1]
        ELSE s

(* handleUndo that pushes the restored text, not the current one, for redo *)
handleUndo_PushesRestored(s) ==
    LET tab == s.activeTab
        stack == s.undoStack[tab]
    IN  IF Len(stack) > 0
        THEN [s EXCEPT !.redoStack[tab] =
                            slice0(<<Head(stack)>> \o s.redoStack[tab], MAX_UNDO_STACK_SIZE),
                       !.code[tab] = Head(stack),
                       !.undoStack[tab] = Tail(stack),
                       !.editorUpdateKey = s.editorUpdateKey + 1]
        ELSE s

(* handleUndo that raises editorUpdateKey outside the test of the stack *)
handleUndo_AlwaysSignals(s) ==
    LET tab == s.activeTab
        stack == s.undoStack[tab]
        codeNow == s.code[tab]
    IN  IF Len(stack) > 0
        THEN [s EXCEPT !.redoStack[tab] =
                            slice0(<<codeNow>> \o s.redoStack[tab], MAX_UNDO_STACK_SIZE),
                       !.code[tab] = Head(stack),
                       !.undoStack[tab] = Tail(stack),
                       !.editorUpdateKey = s.editorUpdateKey + 1]
        ELSE [s EXCEPT !.editorUpdateKey = s.editorUpdateKey + 1]

handleUndo(s) ==
    LET tab == s.activeTab
        stack == s.undoStack[tab]
        codeNow == s.code[tab]
    IN  IF Len(stack) > 0
        THEN [s EXCEPT !.redoStack[tab] =
                            slice0(<<codeNow>> \o s.redoStack[tab], MAX_UNDO_STACK_SIZE),
                       !.code[tab] = Head(stack),
                       !.undoStack[tab] = Tail(stack),
                       !.editorUpdateKey = s.editorUpdateKey + 1]
        ELSE s

(* handleRedo that leaves out setRedoStack(prev => prev.slice(1)) *)
handleRedo_KeepsRedo(s) ==
    LET tab == s.activeTab
        stack == s.redoStack[tab]
        codeNow == s.code[tab]
    IN  IF Len(stack) > 0
        THEN [s EXCEPT !.undoStack[tab] =
                            slice0(<<codeNow>> \o s.undoStack[tab], MAX_UNDO_STACK_SIZE),
                       !.code[tab] = Head(stack),
                       !.editorUpdateKey = s.editorUpdateKey + 1]
        ELSE s

(* handleRedo that takes the oldest entry of the redo stack, not its front *)
handleRedo_TakesLast(s) ==
    LET tab == s.activeTab
        stack == s.redoStack[tab]
        codeNow == s.code[tab]
    IN  IF Len(stack) > 0
        THEN [s EXCEPT !.undoStack[tab] =
                            slice0(<<codeNow>> \o s.undoStack[tab], MAX_UNDO_STACK_SIZE),
                       !.code[tab] = stack[Len(stack)],
                       !.redoStack[tab] = SubSeq(stack, 1, Len(stack) - 1),
                       !.editorUpdateKey = s.editorUpdateKey + 1]
        ELSE s

(* handleRedo that leaves out setEditorUpdateKey *)
handleRedo_NoSignal(s) ==
    LET tab == s.activeTab
        stack == s.redoStack[tab]
        codeNow == s.code[tab]
    IN  IF Len(stack) > 0
        THEN [s EXCEPT !.undoStack[tab] =
                            slice0(<<codeNow>> \o s.undoStack[tab], MAX_UNDO_STACK_SIZE),
                       !.code[tab] = Head(stack),
                       !.redoStack[tab] = Tail(stack)]
        ELSE s

handleRedo(s) ==
    LET tab == s.activeTab
        stack == s.redoStack[tab]
        codeNow == s.code[tab]
    IN  IF Len(stack) > 0
        THEN [s EXCEPT !.undoStack[tab] =
                            slice0(<<codeNow>> \o s.undoStack[tab], MAX_UNDO_STACK_SIZE),
                       !.code[tab] = Head(stack),
                       !.redoStack[tab] = Tail(stack),
                       !.editorUpdateKey = s.editorUpdateKey + 1]
        ELSE s

----------------------------------------------------------------------------
(* Editor *)

(* The browser applies the user's edit to the contentEditable element. *)
userEdit(s, newText) ==
    [s EXCEPT !.editorDiv = [textContent |-> newText, highlighted |-> FALSE]]

(* handleInput without the test of isComposingRef *)
handleInput_IgnoresComposition(s) ==
    LET newText == s.editorDiv.textContent
    IN  renderEditor([s EXCEPT !.lastValueRef = newText], newText)

(* onInput: onChange is the change handler renderEditor has bound. *)
handleInput(s) ==
    IF s.isComposingRef
    THEN s
    ELSE LET newText == s.editorDiv.textContent
         IN  renderEditor([s EXCEPT !.lastValueRef = newText], newText)

onCompositionStart(s) == [s EXCEPT !.isComposingRef = TRUE]

onCompositionEnd(s) == handleInput([s EXCEPT !.isComposingRef = FALSE])

(* handleKeyDown with Control or Meta held and the key v: the default      *)
(* paste is prevented and navigator.clipboard.readText() is started; the   *)
(* other keys leave the state to the browser's own editing.                *)
handleKeyDown(s, key) ==
    IF key = "v" THEN [s EXCEPT !.clipboardReads = @ + 1] ELSE s

(* The read is fulfilled: execCommand('insertText') edits the element to   *)
(* newText and the input event follows; with no Editor there is nothing to *)
(* insert into.                                                            *)
readTextThen(s, newText) ==
    LET settled == [s EXCEPT !.clipboardReads = @ - 1]
    IN  IF s.activeAppView = "editor"
        THEN handleInput(userEdit(settled, newText))
        ELSE settled

(* a failed read that pastes an empty clipboard over the text *)
readTextCatch_PastesNothing(s) == readTextThen(s, <<>>)

(* The read is rejected: the catch handler logs the error. *)
readTextCatch(s) == [s EXCEPT !.clipboardReads = @ - 1]

----------------------------------------------------------------------------
(* Search *)

UpperCase == <<"A","B","C","D","E","F","G","H","I","J","K","L","M",
               "N","O","P","Q","R","S","T","U","V","W","X","Y","Z">>

LowerCase == <<"a","b","c","d","e","f","g","h","i","j","k","l","m",
               "n","o","p","q","r","s","t","u","v","w","x","y","z">>

WhiteSpace == {" ", "\t", "\n", "\r"}

(* String.prototype.toLowerCase *)
toLowerCase(text) ==
    [i \in 1..Len(text) |->
        IF \E k \in 1..Len(UpperCase) : UpperCase[k] = text[i]
        THEN LowerCase[CHOOSE k \in 1..Len(UpperCase) : UpperCase[k] = text[i]]
        ELSE text[i]]

(* String.prototype.trim *)
trim(text) ==
    LET keep == {i \in 1..Len(text) : text[i] \notin WhiteSpace}
    IN  IF keep = {} THEN <<>>
        ELSE SubSeq(text, CHOOSE i \in keep : \A j \in keep : i <= j,
                          CHOOSE i \in keep : \A j \in keep : j <= i)

(* String.prototype.indexOf(term, from): offsets count from 0, -1 when absent *)
indexOf(text, term, from) ==
    LET start == IF from < 0 THEN 0 ELSE from
        hits == {i \in start..(Len(text) - Len(term)) :
                    SubSeq(text, i + 1, i + Len(term)) = term}
    IN  IF hits = {} THEN -1 ELSE CHOOSE i \in hits : \A j \in hits : i <= j

(* while ((i = codeToSearch.indexOf(term, i + 1)) !== -1) newIndices.push(i) *)
RECURSIVE scanMatches(_, _, _, _)
scanMatches(codeToSearch, term, i, newIndices) ==
    LET next == indexOf(codeToSearch, term, i + 1)
    IN  IF next = -1 THEN newIndices
        ELSE scanMatches(codeToSearch, term, next, Append(newIndices, next))

(* getCurrentCode that reads htmlCode whatever the active tab *)
getCurrentCode_Html(s) ==
    IF s.activeAppView # "editor" THEN <<>> ELSE s.code["html"]

getCurrentCode(s) ==
    IF s.activeAppView # "editor" THEN <<>> ELSE s.code[s.activeTab]

(* The editor element of the active tab exists while the editor view is shown. *)
getCurrentEditorRef(s) == s.activeAppView = "editor"

(* handleSearch whose next and prev stop at the ends of the list *)
handleSearch_NoWrap(s, navigation) ==
    LET currentCode == getCurrentCode(s)
    IN  IF ~getCurrentEditorRef(s) \/ currentCode = <<>>
        THEN [s EXCEPT !.searchResults = NoResults]
        ELSE IF trim(s.searchTerm) = <<>>
        THEN [s EXCEPT !.searchResults = NoResults]
        ELSE IF s.searchTerm # s.lastSearchedTerm \/ navigation = "none"
        THEN LET found == scanMatches(toLowerCase(currentCode),
                                      toLowerCase(s.searchTerm), -1, <<>>)
             IN  [s EXCEPT !.searchResults =
                               [indices |-> found,
                                currentResultIndex |-> IF Len(found) > 0 THEN 0 ELSE -1],
                           !.lastSearchedTerm = s.searchTerm]
        ELSE LET n == Len(s.searchResults.indices)
                 cur == s.searchResults.currentResultIndex
             IN  IF n > 0
                 THEN [s EXCEPT !.searchResults.currentResultIndex =
                                   IF navigation = "next"
                                   THEN (IF cur + 1 < n THEN cur + 1 ELSE cur)
                                   ELSE (IF cur > 0 THEN cur - 1 ELSE cur)]
                 ELSE s

(* handleSearch whose next and prev leave out the remainder by the length *)
handleSearch_NoModulo(s, navigation) ==
    LET currentCode == getCurrentCode(s)
    IN  IF ~getCurrentEditorRef(s) \/ currentCode = <<>>
        THEN [s EXCEPT !.searchResults = NoResults]
        ELSE IF trim(s.searchTerm) = <<>>
        THEN [s EXCEPT !.searchResults = NoResults]
        ELSE IF s.searchTerm # s.lastSearchedTerm \/ navigation = "none"
        THEN LET found == scanMatches(toLowerCase(currentCode),
                                      toLowerCase(s.searchTerm), -1, <<>>)
             IN  [s EXCEPT !.searchResults =
                               [indices |-> found,
                                currentResultIndex |-> IF Len(found) > 0 THEN 0 ELSE -1],
                           !.lastSearchedTerm = s.searchTerm]
        ELSE LET n == Len(s.searchResults.indices)
                 cur == s.searchResults.currentResultIndex
             IN  IF n > 0
                 THEN [s EXCEPT !.searchResults.currentResultIndex =
                                   IF navigation = "next" THEN cur + 1 ELSE cur - 1]
                 ELSE s

(* navigation is "next", "prev" or "none" (the argument left out) *)
handleSearch(s, navigation) ==
    LET currentCode == getCurrentCode(s)
    IN  IF ~getCurrentEditorRef(s) \/ currentCode = <<>>
        THEN [s EXCEPT !.searchResults = NoResults]
        ELSE IF trim(s.searchTerm) = <<>>
        THEN [s EXCEPT !.searchResults = NoResults]
        ELSE IF s.searchTerm # s.lastSearchedTerm \/ navigation = "none"
        THEN LET found == scanMatches(toLowerCase(currentCode),
                                      toLowerCase(s.searchTerm), -1, <<>>)
             IN  [s EXCEPT !.searchResults =
                               [indices |-> found,
                                currentResultIndex |-> IF Len(found) > 0 THEN 0 ELSE -1],
                           !.lastSearchedTerm = s.searchTerm]
        ELSE LET n == Len(s.searchResults.indices)
                 cur == s.searchResults.currentResultIndex
             IN  IF n > 0
                 THEN [s EXCEPT !.searchResults.currentResultIndex =
                                   IF navigation = "next"
                                   THEN (cur + 1) % n
                                   ELSE (cur - 1 + n) % n]
                 ELSE s

setSearchTerm(s, term) == [s EXCEPT !.searchTerm = term]

(* useEffect on [activeTab, activeAppView]: runs after a handler changed one *)
(* of them and clears the search results while the editor view is shown.    *)
searchResetEffect(before, after) ==
    IF /\ (after.activeTab # before.activeTab
             \/ after.activeAppView # before.activeAppView)
       /\ after.activeAppView = "editor"
    THEN [after EXCEPT !.searchResults = NoResults]
    ELSE after

----------------------------------------------------------------------------
(* Tabs, views, load and import *)

(* tab onClick that also clears the histories, as a load does *)
tabOnClick_ClearsHistory(s, tab) ==
    searchResetEffect(s, [clearAllUndoRedoStacks(s) EXCEPT
                                   !.activeTab = tab,
                                   !.searchResults = NoResults,
                                   !.lastSearchedTerm = <<>>])

tabOnClick(s, tab) ==
    searchResetEffect(s, [s EXCEPT !.activeTab = tab,
                                   !.searchResults = NoResults,
                                   !.lastSearchedTerm = <<>>])

showSavedProjects(s) ==
    searchResetEffect(s, [s EXCEPT !.activeAppView = "savedProjects"])

backToEditor(s) ==
    searchResetEffect(s, [s EXCEPT !.activeAppView = "editor"])

handleLoadProjectFromLocal(s, projectToLoad) ==
    LET cleared == clearAllUndoRedoStacks(s)
    IN  searchResetEffect(s,
            [cleared EXCEPT !.code = [t \in Tabs |->
                                CASE t = "html" -> projectToLoad.htmlCode
                                  [] t = "css"  -> projectToLoad.cssCode
                                  [] t = "js"   -> projectToLoad.jsCode],
                            !.activeTab = "html",
                            !.activeAppView = "editor",
                            !.editorUpdateKey = s.editorUpdateKey + 1])

(* reader.onload of handleImportProject, after the file was parsed into its *)
(* three parts.                                                             *)
handleImportProject(s, imported) ==
    LET cleared == clearAllUndoRedoStacks(s)
    IN  searchResetEffect(s,
            [cleared EXCEPT !.code = [t \in Tabs |->
                                CASE t = "html" -> imported.htmlCode
                                  [] t = "css"  -> imported.cssCode
                                  [] t = "js"   -> imported.jsCode],
                            !.activeTab = "html",
                            !.activeAppView = "editor",
                            !.editorUpdateKey = s.editorUpdateKey + 1])

(* The document DOMParser makes of a file, as far as the import reads it:  *)
(* for each of the three ids the element found, or none.                   *)
ElementIds == {"project-html-content", "project-css", "project-js"}

NoElement == [found |-> FALSE, content |-> <<>>]

Element(text) == [found |-> TRUE, content |-> text]

ProjectFiles == [ElementIds -> {NoElement, Element(<<>>), Element(DivHi)}]

(* doc.getElementById(id)?.innerHTML || '' (and ?.textContent || '') *)
contentOrEmpty(element) ==
    IF ~element.found THEN <<>>
    ELSE IF element.content = <<>> THEN <<>>
    ELSE element.content

parseProjectFile(doc) ==
    [htmlCode |-> contentOrEmpty(doc["project-html-content"]),
     cssCode  |-> contentOrEmpty(doc["project-css"]),
     jsCode   |-> contentOrEmpty(doc["project-js"])]

(* an import that sets only the texts whose element the file has *)
importProjectFile_KeepsMissing(s, doc) ==
    LET r == handleImportProject(s, parseProjectFile(doc))
    IN  [r EXCEPT !.code =
            [t \in Tabs |->
                CASE t = "html" -> IF doc["project-html-content"].found
                                   THEN r.code[t] ELSE s.code[t]
                  [] t = "css"  -> IF doc["project-css"].found
                                   THEN r.code[t] ELSE s.code[t]
                  [] t = "js"   -> IF doc["project-js"].found
                                   THEN r.code[t] ELSE s.code[t]]]

(* reader.onload of handleImportProject: the try block from the parse on *)
importProjectFile(s, doc) == handleImportProject(s, parseProjectFile(doc))

----------------------------------------------------------------------------
(* Highlighter *)

Languages == {"html", "css", "javascript"}

tokenColors ==
    [comment |-> <<"t","e","x","t","-","g","r","e","e","n","-","4","0","0">>,
     punctuation |-> <<"t","e","x","t","-","s","l","a","t","e","-","4","0","0">>,
     tag |-> <<"t","e","x","t","-","r","e","d","-","4","0","0">>,
     attributeName |-> <<"t","e","x","t","-","y","e","l","l","o","w","-","4","0","0">>,
     attributeValue |-> <<"t","e","x","t","-","l","i","m","e","-","3","0","0">>,
     string |-> <<"t","e","x","t","-","l","i","m","e","-","3","0","0">>,
     keyword |-> <<"t","e","x","t","-","p","u","r","p","l","e","-","4","0","0">>,
     selector |-> <<"t","e","x","t","-","o","r","a","n","g","e","-","4","0","0">>,
     propertyName |-> <<"t","e","x","t","-","s","k","y","-","3","0","0">>,
     cssValue |-> <<"t","e","x","t","-","a","m","b","e","r","-","3","0","0">>,
     number |-> <<"t","e","x","t","-","t","e","a","l","-","3","0","0">>,
     functionName |-> <<"t","e","x","t","-","b","l","u","e","-","4","0","0">>,
     variable |-> <<"t","e","x","t","-","i","n","d","i","g","o","-","3","0","0">>,
     operator |-> <<"t","e","x","t","-","p","i","n","k","-","4","0","0">>]

Letters == {UpperCase[k] : k \in 1..26} \cup {LowerCase[k] : k \in 1..26}

Digits == {"0", "1", "2", "3", "4", "5", "6", "7", "8", "9"}

(* the word characters, the name characters (word characters and the    *)
(* hyphen) and the line terminators, which the dot does not match       *)
WordChars == Letters \cup Digits \cup {"_"}

NameChars == WordChars \cup {"-"}

LineTerminators == {"\n", "\r"}

(* the grave accent: the character itself cannot be written in a string   *)
(* here, so this one-character text stands for it                          *)
Backtick == "grave-accent"

MinOf(S) == CHOOSE x \in S : \A y \in S : x <= y

(* String.prototype.startsWith(lit, i - 1), positions counted from 1 *)
startsWith(str, i, lit) ==
    /\ i + Len(lit) - 1 <= Len(str)
    /\ \A k \in 1..Len(lit) : str[i + k - 1] = lit[k]

(* String.prototype.includes *)
includes(str, lit) == \E i \in 1..(Len(str) + 1) : startsWith(str, i, lit)

(* the first position from `from` on where lit occurs, 0 when there is none *)
find(str, lit, from) ==
    LET at == {j \in from..Len(str) : startsWith(str, j, lit)}
    IN  IF at = {} THEN 0 ELSE MinOf(at)

(* the last position of the longest run of characters of class that       *)
(* starts at i (i - 1 when the run is empty)                                   *)
runEnd(str, i, class) ==
    LET stops == {j \in i..Len(str) : str[j] \notin class}
    IN  IF stops = {} THEN Len(str) ELSE MinOf(stops) - 1

(* the same for the characters outside class *)
runEndNot(str, i, class) ==
    LET stops == {j \in i..Len(str) : str[j] \in class}
    IN  IF stops = {} THEN Len(str) ELSE MinOf(stops) - 1

(* a word boundary before position i *)
wordBoundary(str, i) ==
    (i > 1 /\ str[i - 1] \in WordChars) # (i <= Len(str) /\ str[i] \in WordChars)

(* escapeHtml: each of the five special characters is replaced by its   *)
(* entity.                                                              *)
Entities == [amp |-> <<"&","a","m","p",";">>,
             lt |-> <<"&","l","t",";">>,
             gt |-> <<"&","g","t",";">>,
             quot |-> <<"&","q","u","o","t",";">>,
             apos |-> <<"&","#","3","9",";">>]

escapeChar(c) ==
    CASE c = "&" -> Entities.amp
      [] c = "<" -> Entities.lt
      [] c = ">" -> Entities.gt
      [] c = "\"" -> Entities.quot
      [] c = "'" -> Entities.apos
      [] OTHER -> <<c>>

RECURSIVE escapeHtml(_)
escapeHtml(text) ==
    IF text = <<>> THEN <<>>
    ELSE LET rest == escapeHtml(Tail(text))
         IN  escapeChar(Head(text)) \o rest

(* The regular expressions of the rules.  Each operator gives, for a match *)
(* that starts at position i of str, the position of its last character,  *)
(* and 0 when the expression does not match at i.                          *)

(* the expression of the comment rule (line 51): two slashes and the rest *)
(* of the line, or a block comment, or an HTML comment                    *)
commentRegex(str, i) ==
    IF startsWith(str, i, <<"/", "/">>)
    THEN runEndNot(str, i + 2, LineTerminators)
    ELSE IF startsWith(str, i, <<"/", "*">>)
    THEN LET j == find(str, <<"*", "/">>, i + 2)
         IN  IF j = 0 THEN 0 ELSE j + 1
    ELSE IF startsWith(str, i, <<"<", "!", "-", "-">>)
    THEN LET j == find(str, <<"-", "-", ">">>, i + 4)
         IN  IF j = 0 THEN 0 ELSE j + 2
    ELSE 0

(* the expression of the string rule (line 52): a quote character, as few *)
(* characters of the line as possible, the same quote character           *)
stringRegex(str, i) ==
    IF str[i] \in {"'", "\"", Backtick}
    THEN LET j == find(str, <<str[i]>>, i + 1)
         IN  IF j = 0 \/ \E k \in (i + 1)..(j - 1) : str[k] \in LineTerminators
             THEN 0
             ELSE j
    ELSE 0

(* line 55: the entity of the less-than sign, an optional slash, one or   *)
(* more name characters                                                   *)
tagOpenRegex(str, i) ==
    IF startsWith(str, i, Entities.lt)
    THEN LET p == IF i + 4 <= Len(str) /\ str[i + 4] = "/" THEN i + 5 ELSE i + 4
             e == runEnd(str, p, NameChars)
         IN  IF e >= p THEN e ELSE 0
    ELSE 0

(* line 56: one or more name characters, followed (not consumed) by       *)
(* optional white space, an equals sign and the entity of the double      *)
(* quote                                                                  *)
attributeNameRegex(str, i) ==
    IF str[i] \in NameChars
    THEN LET e == runEnd(str, i, NameChars)
             sp == runEnd(str, e + 1, WhiteSpace)
         IN  IF startsWith(str, sp + 1, <<"=">> \o Entities.quot) THEN e ELSE 0
    ELSE 0

(* line 57: the entity of the greater-than sign                           *)
tagCloseRegex(str, i) ==
    IF startsWith(str, i, Entities.gt) THEN i + 3 ELSE 0

(* line 59: the start of the text or one of white space, braces and       *)
(* semicolon; then as few selector characters as possible (one at least), *)
(* followed (not consumed) by optional white space and an opening brace   *)
SelectorChars ==
    WordChars \cup WhiteSpace
        \cup {"*", ".", "#", "[", "]", ":", "\"", "'", "-", ">", "+", "~"}

selectorFrom(str, start) ==
    LET r == runEnd(str, start, SelectorChars)
        ok == {e \in start..r :
                  LET sp == runEnd(str, e + 1, WhiteSpace)
                  IN  sp + 1 <= Len(str) /\ str[sp + 1] = "{"}
    IN  IF ok = {} THEN 0 ELSE MinOf(ok)

selectorRegex(str, i) ==
    LET atStart == IF i = 1 THEN selectorFrom(str, 1) ELSE 0
    IN  IF atStart > 0 THEN atStart
        ELSE IF str[i] \in WhiteSpace \cup {"{", "}", ";"}
        THEN selectorFrom(str, i + 1)
        ELSE 0

(* line 60: one or more name characters, optional white space, a colon    *)
propertyNameRegex(str, i) ==
    IF str[i] \in NameChars
    THEN LET e == runEnd(str, i, NameChars)
             sp == runEnd(str, e + 1, WhiteSpace)
         IN  IF sp + 1 <= Len(str) /\ str[sp + 1] = ":" THEN sp + 1 ELSE 0
    ELSE 0

(* line 61: a colon, optional white space, one or more characters other   *)
(* than semicolon and closing brace                                       *)
cssValueRegex(str, i) ==
    IF str[i] = ":"
    THEN LET e == runEndNot(str, i + 1, {";", "}"})
         IN  IF e >= i + 1 THEN e ELSE 0
    ELSE 0

(* line 62: one punctuation character                                     *)
cssPunctuationRegex(str, i) ==
    IF str[i] \in {"{", "}", "(", ")", ";", ","} THEN i ELSE 0

(* line 64: one of the keywords between two word boundaries               *)
Keywords ==
    {<<"c","o","n","s","t">>,
     <<"l","e","t">>,
     <<"v","a","r">>,
     <<"f","u","n","c","t","i","o","n">>,
     <<"r","e","t","u","r","n">>,
     <<"i","f">>,
     <<"e","l","s","e">>,
     <<"f","o","r">>,
     <<"w","h","i","l","e">>,
     <<"s","w","i","t","c","h">>,
     <<"c","a","s","e">>,
     <<"b","r","e","a","k">>,
     <<"c","o","n","t","i","n","u","e">>,
     <<"n","e","w">>,
     <<"t","h","i","s">>,
     <<"i","m","p","o","r","t">>,
     <<"e","x","p","o","r","t">>,
     <<"d","e","f","a","u","l","t">>,
     <<"c","l","a","s","s">>,
     <<"e","x","t","e","n","d","s">>,
     <<"s","u","p","e","r">>,
     <<"t","r","y">>,
     <<"c","a","t","c","h">>,
     <<"f","i","n","a","l","l","y">>,
     <<"t","y","p","e","o","f">>,
     <<"i","n","s","t","a","n","c","e","o","f">>,
     <<"d","e","l","e","t","e">>,
     <<"v","o","i","d">>,
     <<"a","s","y","n","c">>,
     <<"a","w","a","i","t">>,
     <<"t","r","u","e">>,
     <<"f","a","l","s","e">>,
     <<"n","u","l","l">>,
     <<"u","n","d","e","f","i","n","e","d">>}

keywordRegex(str, i) ==
    LET ok == {k \in Keywords : /\ startsWith(str, i, k)
                                /\ wordBoundary(str, i + Len(k))}
    IN  IF wordBoundary(str, i) /\ ok # {}
        THEN i + Len(CHOOSE k \in ok : TRUE) - 1
        ELSE 0

(* line 65: between two word boundaries, a capital letter or underscore   *)
(* and then capital letters, digits and underscores                       *)
variableRegex(str, i) ==
    IF wordBoundary(str, i) /\ \E k \in 1..26 : str[i] \in {UpperCase[k], "_"}
    THEN LET e == runEnd(str, i, {UpperCase[k] : k \in 1..26} \cup Digits \cup {"_"})
         IN  IF wordBoundary(str, e + 1) THEN e ELSE 0
    ELSE 0

(* line 66: after a word boundary, a letter or underscore, word           *)
(* characters, optional white space, followed (not consumed) by an        *)
(* opening parenthesis                                                    *)
functionNameRegex(str, i) ==
    IF wordBoundary(str, i) /\ str[i] \in Letters \cup {"_"}
    THEN LET e == runEnd(str, i, WordChars)
             sp == runEnd(str, e + 1, WhiteSpace)
         IN  IF sp + 1 <= Len(str) /\ str[sp + 1] = "(" THEN sp ELSE 0
    ELSE 0

(* line 67: between two word boundaries, digits and optionally a point    *)
(* and digits                                                             *)
numberRegex(str, i) ==
    IF wordBoundary(str, i) /\ str[i] \in Digits
    THEN LET e1 == runEnd(str, i, Digits)
             fraction == /\ e1 + 2 <= Len(str)
                         /\ str[e1 + 1] = "."
                         /\ str[e1 + 2] \in Digits
             e2 == runEnd(str, e1 + 2, Digits)
         IN  IF fraction /\ wordBoundary(str, e2 + 1) THEN e2
             ELSE IF wordBoundary(str, e1 + 1) THEN e1
             ELSE 0
    ELSE 0

(* line 68: one punctuation character                                     *)
jsPunctuationRegex(str, i) ==
    IF str[i] \in {"{", "}", "(", ")", ";", ",", ".", ":", "?"} THEN i ELSE 0

(* line 69: one operator character                                        *)
operatorRegex(str, i) ==
    IF str[i] \in {"+", "-", "*", "/", "%", "=", "&", "|", "<", ">", "!", "^", "~"}
    THEN i
    ELSE 0

regexMatch(regex, str, i) ==
    CASE regex = "comment" -> commentRegex(str, i)
      [] regex = "string" -> stringRegex(str, i)
      [] regex = "tagOpen" -> tagOpenRegex(str, i)
      [] regex = "attributeName" -> attributeNameRegex(str, i)
      [] regex = "tagClose" -> tagCloseRegex(str, i)
      [] regex = "selector" -> selectorRegex(str, i)
      [] regex = "propertyName" -> propertyNameRegex(str, i)
      [] regex = "cssValue" -> cssValueRegex(str, i)
      [] regex = "cssPunctuation" -> cssPunctuationRegex(str, i)
      [] regex = "keyword" -> keywordRegex(str, i)
      [] regex = "variable" -> variableRegex(str, i)
      [] regex = "functionName" -> functionNameRegex(str, i)
      [] regex = "number" -> numberRegex(str, i)
      [] regex = "jsPunctuation" -> jsPunctuationRegex(str, i)
      [] regex = "operator" -> operatorRegex(str, i)

(* The rules of a language, in the order they are pushed. *)
rules(language) ==
    << [regex |-> "comment", tokenClass |-> "comment"],
       [regex |-> "string", tokenClass |-> "string"] >>
    \o CASE language = "html" ->
              << [regex |-> "tagOpen", tokenClass |-> "tag"],
                 [regex |-> "attributeName", tokenClass |-> "attributeName"],
                 [regex |-> "tagClose", tokenClass |-> "tag"] >>
          [] language = "css" ->
              << [regex |-> "selector", tokenClass |-> "selector"],
                 [regex |-> "propertyName", tokenClass |-> "propertyName"],
                 [regex |-> "cssValue", tokenClass |-> "cssValue"],
                 [regex |-> "cssPunctuation", tokenClass |-> "punctuation"] >>
          [] language = "javascript" ->
              << [regex |-> "keyword", tokenClass |-> "keyword"],
                 [regex |-> "variable", tokenClass |-> "variable"],
                 [regex |-> "functionName", tokenClass |-> "functionName"],
                 [regex |-> "number", tokenClass |-> "number"],
                 [regex |-> "jsPunctuation", tokenClass |-> "punctuation"],
                 [regex |-> "operator", tokenClass |-> "operator"] >>

SpanStart == <<"<","s","p","a","n">>

SpanOpen == <<"<","s","p","a","n"," ","c","l","a","s","s","=","\"">>

SpanOpenEnd == <<"\"",">">>

SpanClose == <<"<","/","s","p","a","n",">">>

LineBreak == <<"<","b","r",">">>

(* The replacer of a rule: a match that starts with <span or holds </span> *)
(* is left as it is, any other is wrapped in a span of the rule's colour.  *)
wrapMatch(match, tokenClass) ==
    IF startsWith(match, 1, SpanStart) \/ includes(match, SpanClose)
    THEN match
    ELSE SpanOpen \o tokenColors[tokenClass] \o SpanOpenEnd \o match \o SpanClose

(* String.prototype.replace with a global expression: the matches are     *)
(* taken from left to right, each search starting after the match before. *)
RECURSIVE replaceFrom(_, _, _, _, _)
replaceFrom(str, regex, tokenClass, starts, from) ==
    LET rest == {i \in starts : i >= from}
    IN  IF rest = {}
        THEN SubSeq(str, from, Len(str))
        ELSE LET i == MinOf(rest)
                 e == regexMatch(regex, str, i)
                 tail == replaceFrom(str, regex, tokenClass, starts, e + 1)
             IN  SubSeq(str, from, i - 1)
                     \o wrapMatch(SubSeq(str, i, e), tokenClass) \o tail

replaceRule(str, rule) ==
    replaceFrom(str, rule.regex, rule.tokenClass,
                {i \in 1..Len(str) : regexMatch(rule.regex, str, i) > 0}, 1)

(* the last replace: every newline becomes the line-break marker *)
RECURSIVE replaceNewlines(_, _)
replaceNewlines(str, from) ==
    LET j == find(str, <<"\n">>, from)
    IN  IF j = 0
        THEN SubSeq(str, from, Len(str))
        ELSE LET tail == replaceNewlines(str, j + 1)
             IN  SubSeq(str, from, j - 1) \o LineBreak \o tail

(* applySyntaxHighlighting, one step at a time: the call with its          *)
(* arguments and the value of highlightedText, after rule rules have been  *)
(* applied.                                                                *)
startHighlighting(text, language) ==
    IF text = <<>>
    THEN [text |-> text, language |-> language, highlightedText |-> <<>>,
          rule |-> 0, pc |-> "returned"]
    ELSE [text |-> text, language |-> language,
          highlightedText |-> escapeHtml(text), rule |-> 0, pc |-> "rules"]

applyRule(h) ==
    LET next == replaceRule(h.highlightedText, rules(h.language)[h.rule + 1])
    IN  [h EXCEPT !.highlightedText = next,
                  !.rule = @ + 1,
                  !.pc = IF h.rule + 1 = Len(rules(h.language))
                         THEN "lineBreaks" ELSE "rules"]

returnHighlighted(h) ==
    [h EXCEPT !.highlightedText = replaceNewlines(h.highlightedText, 1),
              !.pc = "returned"]

RECURSIVE runHighlighting(_)
runHighlighting(h) ==
    IF h.pc = "returned" THEN h
    ELSE LET next == IF h.pc = "rules" THEN applyRule(h) ELSE returnHighlighted(h)
         IN  IF next = h THEN h ELSE runHighlighting(next)

applySyntaxHighlighting(text, language) ==
    runHighlighting(startHighlighting(text, language)).highlightedText

(* The element reads the markup back.  Assigning innerHTML parses it: a   *)
(* tag runs from a less-than sign that a letter, or a slash and a letter,  *)
(* follows, to the next greater-than sign; the text between two tags is    *)
(* one text node, with its entities decoded.                               *)
tagEnd(str, i) ==
    IF /\ str[i] = "<"
       /\ i + 1 <= Len(str)
       /\ \/ str[i + 1] \in Letters
          \/ str[i + 1] = "/" /\ i + 2 <= Len(str) /\ str[i + 2] \in Letters
    THEN find(str, <<">">>, i + 1)
    ELSE 0

RECURSIVE markupTokens(_, _)
markupTokens(str, from) ==
    IF from > Len(str) THEN <<>>
    ELSE LET e == tagEnd(str, from)
         IN  IF e > 0
             THEN LET rest == markupTokens(str, e + 1)
                  IN  <<[tag |-> TRUE, chars |-> SubSeq(str, from, e)]>> \o rest
             ELSE LET tags == {j \in (from + 1)..Len(str) : tagEnd(str, j) > 0}
                      stop == IF tags = {} THEN Len(str) ELSE MinOf(tags) - 1
                      rest == markupTokens(str, stop + 1)
                  IN  <<[tag |-> FALSE, chars |-> SubSeq(str, from, stop)]>> \o rest

EntityNames == {"amp", "lt", "gt", "quot", "apos"}

EntityChar == [amp |-> "&", lt |-> "<", gt |-> ">", quot |-> "\"", apos |-> "'"]

entityAt(str, i) == {n \in EntityNames : startsWith(str, i, Entities[n])}

RECURSIVE unescapeHtml(_, _)
unescapeHtml(str, from) ==
    LET at == {j \in from..Len(str) : entityAt(str, j) # {}}
    IN  IF at = {}
        THEN SubSeq(str, from, Len(str))
        ELSE LET j == MinOf(at)
                 n == CHOOSE n \in entityAt(str, j) : TRUE
                 rest == unescapeHtml(str, j + Len(Entities[n]))
             IN  SubSeq(str, from, j - 1) \o <<EntityChar[n]>> \o rest

RECURSIVE concat(_)
concat(seqs) ==
    IF seqs = <<>> THEN <<>>
    ELSE LET rest == concat(Tail(seqs)) IN Head(seqs) \o rest

isText(token) == ~token.tag

(* the text nodes of the element in document order, the order in which    *)
(* findTextNode visits them                                                *)
textNodes(markup) ==
    LET texts == SelectSeq(markupTokens(markup, 1), isText)
    IN  [k \in 1..Len(texts) |-> unescapeHtml(texts[k].chars, 1)]

(* Node.textContent of the element: the text nodes, one after the other;  *)
(* a line-break element has no text                                        *)
textContent(markup) == concat(textNodes(markup))

(* The caret is a position in the text of the element: the number of      *)
(* characters before it.  When innerHTML is assigned the nodes the caret   *)
(* was in are removed, and the selection is left at the start of the       *)
(* element, wherever it was.                                               *)
caretAfterRender(caret) == 0

(* the first text node whose value includes text, 0 when there is none *)
findTextNode(nodes, text) ==
    LET hits == {k \in 1..Len(nodes) : includes(nodes[k], text)}
    IN  IF hits = {} THEN 0 ELSE MinOf(hits)

(* the characters before text node k *)
nodeStart(nodes, k) == Len(concat(SubSeq(nodes, 1, k - 1)))

(* the length of the text inside the first child of the element: a text   *)
(* node, a span with its text, or a line break                             *)
firstChildLength(markup) ==
    LET toks == markupTokens(markup, 1)
    IN  IF ~toks[1].tag THEN Len(unescapeHtml(toks[1].chars, 1))
        ELSE IF toks[1].chars = LineBreak THEN 0
        ELSE LET closes == {k \in 2..Len(toks) : toks[k].chars = SpanClose}
                 last == IF closes = {} THEN Len(toks) ELSE MinOf(closes) - 1
             IN  Len(textContent(concat([k \in 1..(last - 1) |-> toks[k + 1].chars])))

(* The restoration of the external-change effect, after setEditorContent  *)
(* has rendered markup: captured is the container and offset of the        *)
(* selection read before the render (container FALSE: no selection).       *)
(* Range.collapse(toStart) collapses to the start when toStart is true.    *)
restoreCaret(markup, captured) ==
    LET nodes == textNodes(markup)
        newStartContainer ==
            IF captured.textNode THEN findTextNode(nodes, captured.text) ELSE 0
        rendered == caretAfterRender(captured.offset)
    IN  IF ~captured.container THEN rendered
        ELSE IF newStartContainer > 0
        THEN LET length == Len(nodes[newStartContainer])
                 newOffset == IF captured.offset < length
                              THEN captured.offset ELSE length
             IN  nodeStart(nodes, newStartContainer) + newOffset
        ELSE IF markup # <<>>
        THEN IF captured.offset > 0 THEN 0 ELSE firstChildLength(markup)
        ELSE rendered

(* The caret when the update is complete.  The text has changed, so the   *)
(* effect on [language, setEditorContent, value] runs after the            *)
(* external-change effect and assigns innerHTML once more.                 *)
caretAfterUpdate(markup, captured) ==
    caretAfterRender(restoreCaret(markup, captured))

----------------------------------------------------------------------------
(* Initial state and actions *)

Init ==
    /\ code = initialCode
    /\ undoStack = [t \in Tabs |-> <<>>]
    /\ redoStack = [t \in Tabs |-> <<>>]
    /\ activeTab = "html"
    /\ activeAppView = "editor"
    /\ editorUpdateKey = 0
    /\ searchTerm = <<>>
    /\ searchResults = NoResults
    /\ lastSearchedTerm = <<>>
    /\ srcDoc = <<>>
    /\ previewTimers = {[code |-> initialCode, elapsed |-> 0]}
    /\ mounted = TRUE
    /\ lastValueRef = initialCode["html"]
    /\ isComposingRef = FALSE
    /\ editorDiv = [textContent |-> initialCode["html"], highlighted |-> TRUE]
    /\ clipboardReads = 0
    /\ highlighting = NoHighlighting

(* The user edits the text of the element to value and the input event     *)
(* reports it.                                                             *)
EditorChange(value) ==
    /\ activeAppView = "editor"
    /\ Apply(handleInput(userEdit(St, value)))

(* The undo and redo buttons of the editor view.  The handlers test the    *)
(* stack themselves, so they are also run while the button is disabled.    *)
ClickUndo ==
    /\ activeAppView = "editor"
    /\ editorUpdateKey < MaxUpdateKey
    /\ Apply(handleUndo(St))

ClickRedo ==
    /\ activeAppView = "editor"
    /\ editorUpdateKey < MaxUpdateKey
    /\ Apply(handleRedo(St))

ClickTab(tab) ==
    /\ activeAppView = "editor"
    /\ Apply(tabOnClick(St, tab))

TypeSearchTerm(term) ==
    /\ activeAppView = "editor"
    /\ Apply(setSearchTerm(St, term))

ClickSearch(navigation) ==
    /\ activeAppView = "editor"
    /\ navigation # "none" => Len(searchResults.indices) > 0
    /\ Apply(handleSearch(St, navigation))

(* The menu entry is there in both views. *)
OpenSavedProjects ==
    /\ activeAppView \in AppViews
    /\ Apply(showSavedProjects(St))

BackToEditor ==
    /\ activeAppView = "savedProjects"
    /\ Apply(backToEditor(St))

(* The saved projects are read from local storage: any project may be there. *)
LoadProject(project) ==
    /\ activeAppView = "savedProjects"
    /\ editorUpdateKey < MaxUpdateKey
    /\ Apply(handleLoadProjectFromLocal(St, project))

ImportProject(imported) ==
    /\ editorUpdateKey < MaxUpdateKey
    /\ Apply(handleImportProject(St, imported))

(* Spec: the history of the three documents, the views, load and import. *)
TypeEdit ==
    \E value \in Texts :
        /\ Len(undoStack[activeTab]) < MaxDepth
        /\ EditorChange(value)

Next ==
    \/ TypeEdit
    \/ ClickUndo
    \/ ClickRedo
    \/ \E tab \in Tabs : ClickTab(tab)
    \/ OpenSavedProjects
    \/ BackToEditor
    \/ \E project \in Projects : LoadProject(project)
    \/ \E imported \in Projects : ImportProject(imported)

Spec == Init /\ [][Next]_vars

(* SpecSearch: searching while the documents are edited and the tab changes. *)
TypeEditSearch ==
    \E value \in SearchTexts :
        /\ Len(undoStack[activeTab]) < MaxSearchDepth
        /\ EditorChange(value)

NextSearch ==
    \/ TypeEditSearch
    \/ ClickUndo
    \/ ClickRedo
    \/ \E tab \in Tabs : ClickTab(tab)
    \/ \E term \in Terms : TypeSearchTerm(term)
    \/ \E navigation \in {"none", "next", "prev"} : ClickSearch(navigation)

SpecSearch == Init /\ [][NextSearch]_vars

(* SpecDeep: one document is edited to the full depth of its history: the  *)
(* text grows by one character per edit, and the tab is chosen before the  *)
(* first edit.                                                             *)
TypeChar ==
    /\ Len(code[activeTab]) < MaxTextLen
    /\ EditorChange(Append(code[activeTab], "a"))

ChooseTab(tab) ==
    /\ \A t \in Tabs : undoStack[t] = <<>> /\ redoStack[t] = <<>>
    /\ ClickTab(tab)

NextDeep ==
    \/ TypeChar
    \/ ClickUndo
    \/ ClickRedo
    \/ \E tab \in Tabs : ChooseTab(tab)

SpecDeep == Init /\ [][NextDeep]_vars

(* SpecPreview: the debounced preview while one document is edited or a    *)
(* project is imported.  The clock advances in steps of PreviewTick; a     *)
(* timeout may run once its delay has passed.                              *)
TypeEditPreview ==
    \E value \in Texts :
        /\ Len(undoStack[activeTab]) < MaxPreviewDepth
        /\ EditorChange(value)

Tick ==
    /\ mounted
    /\ \E timer \in previewTimers : timer.elapsed < PreviewDelay
    /\ previewTimers' =
           {[timer EXCEPT !.elapsed = IF @ + PreviewTick > PreviewDelay
                                      THEN PreviewDelay
                                      ELSE @ + PreviewTick] : timer \in previewTimers}
    /\ UNCHANGED <<code, undoStack, redoStack, activeTab, activeAppView,
                   editorUpdateKey, searchTerm, searchResults, lastSearchedTerm,
                   srcDoc, mounted, lastValueRef, isComposingRef, editorDiv,
                   clipboardReads, highlighting>>

PreviewTimeout ==
    \E timer \in previewTimers :
        /\ timer.elapsed >= PreviewDelay
        /\ Apply(previewTimeout(St, timer))

Unmount ==
    /\ mounted
    /\ mounted' = FALSE
    /\ previewTimers' = unmount(St).previewTimers
    /\ UNCHANGED <<code, undoStack, redoStack, activeTab, activeAppView,
                   editorUpdateKey, searchTerm, searchResults, lastSearchedTerm,
                   srcDoc, lastValueRef, isComposingRef, editorDiv,
                   clipboardReads, highlighting>>

NextPreview ==
    \/ TypeEditPreview
    \/ ClickUndo
    \/ \E tab \in Tabs : ChooseTab(tab)
    \/ \E imported \in Projects : ImportProject(imported)
    \/ Tick
    \/ PreviewTimeout
    \/ Unmount

SpecPreview == Init /\ [][NextPreview]_vars

(* SpecPreviewLive: SpecPreview where time goes on while a timeout is      *)
(* pending and a timeout whose delay has passed is run by the event loop.  *)
SpecPreviewLive ==
    Init /\ [][NextPreview]_vars /\ WF_vars(Tick) /\ WF_vars(PreviewTimeout)

(* SpecEditor: the Editor under input, composition (IME), undo and tab     *)
(* switches.  An input event follows every edit of the element, also       *)
(* during a composition; nothing in the source ends a composition, so a    *)
(* tab can be clicked while one is in progress.                            *)
TypeEditEditor ==
    \E value \in Texts :
        /\ Len(undoStack[activeTab]) < MaxEditorDepth
        /\ EditorChange(value)

CompositionStart ==
    /\ activeAppView = "editor"
    /\ ~isComposingRef
    /\ Apply(onCompositionStart(St))

CompositionEnd ==
    /\ activeAppView = "editor"
    /\ isComposingRef
    /\ Len(undoStack[activeTab]) < MaxEditorDepth
    /\ Apply(onCompositionEnd(St))

NextEditor ==
    \/ TypeEditEditor
    \/ CompositionStart
    \/ CompositionEnd
    \/ ClickUndo
    \/ \E tab \in Tabs : ClickTab(tab)

SpecEditor == Init /\ [][NextEditor]_vars

(* SpecImport: project files with any of the three elements missing are   *)
(* imported while the documents are edited.                                *)
ImportFile(doc) ==
    /\ editorUpdateKey < MaxUpdateKey
    /\ Apply(importProjectFile(St, doc))

TypeEditImport ==
    \E value \in Texts :
        /\ Len(undoStack[activeTab]) < MaxImportDepth
        /\ EditorChange(value)

NextImport ==
    \/ TypeEditImport
    \/ ClickUndo
    \/ \E tab \in Tabs : ClickTab(tab)
    \/ \E doc \in ProjectFiles : ImportFile(doc)

SpecImport == Init /\ [][NextImport]_vars

(* SpecCommit: the change handler as a function of the document it is      *)
(* applied to.  The active document starts with any text and any two       *)
(* stacks of at most MaxStackIn texts, those no run of the editor builds   *)
(* among them (the text at the front of its own undo stack).               *)
StacksIn == UNION {[1..n -> AllTexts] : n \in 0..MaxStackIn}

InitCommit ==
    \E tab \in Tabs, text \in AllTexts, undo \in StacksIn, redo \in StacksIn :
        /\ code = [initialCode EXCEPT ![tab] = text]
        /\ undoStack = [[t \in Tabs |-> <<>>] EXCEPT ![tab] = undo]
        /\ redoStack = [[t \in Tabs |-> <<>>] EXCEPT ![tab] = redo]
        /\ activeTab = tab
        /\ activeAppView = "editor"
        /\ editorUpdateKey = 0
        /\ searchTerm = <<>>
        /\ searchResults = NoResults
        /\ lastSearchedTerm = <<>>
        /\ srcDoc = <<>>
        /\ previewTimers = {[code |-> code, elapsed |-> 0]}
        /\ mounted = TRUE
        /\ lastValueRef = text
        /\ isComposingRef = FALSE
        /\ editorDiv = [textContent |-> text, highlighted |-> TRUE]
        /\ clipboardReads = 0
        /\ highlighting = NoHighlighting

TypeCommit ==
    \E value \in AllTexts :
        /\ Len(undoStack[activeTab]) <= MaxStackIn
        /\ EditorChange(value)

NextCommit == TypeCommit

SpecCommit == InitCommit /\ [][NextCommit]_vars

(* SpecPaste: pasting with Control+v while one document is edited, undone *)
(* and redone.  A read of the clipboard is settled some time after the key *)
(* press, fulfilled or rejected.                                           *)
TypeEditPaste ==
    \E value \in Texts :
        /\ Len(undoStack[activeTab]) < MaxPasteDepth
        /\ EditorChange(value)

PasteKey ==
    /\ activeAppView = "editor"
    /\ clipboardReads < MaxClipboardReads
    /\ Apply(handleKeyDown(St, "v"))

ClipboardFulfil ==
    \E newText \in Texts :
        /\ clipboardReads > 0
        /\ Len(undoStack[activeTab]) < MaxPasteDepth
        /\ Apply(readTextThen(St, newText))

ClipboardReject ==
    /\ clipboardReads > 0
    /\ Apply(readTextCatch(St))

NextPaste ==
    \/ TypeEditPaste
    \/ ClickUndo
    \/ ClickRedo
    \/ PasteKey
    \/ ClipboardFulfil
    \/ ClipboardReject

SpecPaste == Init /\ [][NextPaste]_vars

(* SpecHighlight: one call of applySyntaxHighlighting, a rule at a time,   *)
(* on the texts and languages of HighlightInputs.                          *)
HighlightInputs ==
    {[text |-> <<"<","d","i","v",">","h","i","<","/","d","i","v",">">>,
      language |-> "html"],
     [text |-> <<"a","\n","b">>,
      language |-> "html"],
     [text |-> <<"/","/","x">>,
      language |-> "html"],
     [text |-> <<"<","a"," ","b","=","\"","c","\"",">">>,
      language |-> "html"],
     [text |-> <<Backtick,"s",Backtick>>,
      language |-> "html"],
     [text |-> <<"h","i">>,
      language |-> "html"],
     [text |-> <<>>,
      language |-> "html"],
     [text |-> <<"a","{","b",":","c",";","}">>,
      language |-> "css"],
     [text |-> <<"a","\n","b">>,
      language |-> "css"],
     [text |-> <<"/","*","x","*","/">>,
      language |-> "css"],
     [text |-> <<"<","d","i","v",">","h","i","<","/","d","i","v",">">>,
      language |-> "css"],
     [text |-> <<"a","{","}","\n","b","{","}">>,
      language |-> "css"],
     [text |-> <<"1">>,
      language |-> "javascript"],
     [text |-> <<"x">>,
      language |-> "javascript"],
     [text |-> <<"a","\n","b">>,
      language |-> "javascript"],
     [text |-> <<"i","f">>,
      language |-> "javascript"],
     [text |-> <<"f","(","x",")">>,
      language |-> "javascript"],
     [text |-> <<"/","/","x">>,
      language |-> "javascript"]}

InitHighlight ==
    \E input \in HighlightInputs :
        /\ code = initialCode
        /\ undoStack = [t \in Tabs |-> <<>>]
        /\ redoStack = [t \in Tabs |-> <<>>]
        /\ activeTab = "html"
        /\ activeAppView = "editor"
        /\ editorUpdateKey = 0
        /\ searchTerm = <<>>
        /\ searchResults = NoResults
        /\ lastSearchedTerm = <<>>
        /\ srcDoc = <<>>
        /\ previewTimers = {[code |-> initialCode, elapsed |-> 0]}
        /\ mounted = TRUE
        /\ lastValueRef = initialCode["html"]
        /\ isComposingRef = FALSE
        /\ editorDiv = [textContent |-> initialCode["html"], highlighted |-> TRUE]
        /\ clipboardReads = 0
        /\ highlighting = startHighlighting(input.text, input.language)

ApplyRule ==
    /\ highlighting.pc = "rules"
    /\ highlighting' = applyRule(highlighting)
    /\ UNCHANGED <<code, undoStack, redoStack, activeTab, activeAppView,
                   editorUpdateKey, searchTerm, searchResults, lastSearchedTerm,
                   srcDoc, previewTimers, mounted, lastValueRef,
                   isComposingRef, editorDiv, clipboardReads>>

ReturnHighlighted ==
    /\ highlighting.pc = "lineBreaks"
    /\ highlighting' = returnHighlighted(highlighting)
    /\ UNCHANGED <<code, undoStack, redoStack, activeTab, activeAppView,
                   editorUpdateKey, searchTerm, searchResults, lastSearchedTerm,
                   srcDoc, previewTimers, mounted, lastValueRef,
                   isComposingRef, editorDiv, clipboardReads>>

NextHighlight ==
    \/ ApplyRule
    \/ ReturnHighlighted

SpecHighlight == InitHighlight /\ [][NextHighlight]_vars

----------------------------------------------------------------------------
(* Properties *)

EmptyStacks == [t \in Tabs |-> <<>>]

(* C1: in every reachable state of the editor view, committing A, then B   *)
(* (A # B), then undoing leaves the active document with text A and B at   *)
(* the front of its redo stack; from the text <div>hi</div>, committing    *)
(* <div>hello</div> puts <div>hi</div> at the front of the undo stack, undo *)
(* restores <div>hi</div> with <div>hello</div> at the redo front, and redo *)
(* restores <div>hello</div>.                                              *)
C1_CommitCommitUndo ==
    activeAppView = "editor" =>
        /\ \A A \in AllTexts, B \in AllTexts :
              A # B =>
                LET s3 == handleUndo(renderEditor(renderEditor(St, A), B))
                IN  /\ s3.code[activeTab] = A
                    /\ Len(s3.redoStack[activeTab]) > 0
                    /\ s3.redoStack[activeTab][1] = B
        /\ code[activeTab] = DivHi =>
              LET s1 == renderEditor(St, DivHello)
                  s2 == handleUndo(s1)
                  s3 == handleRedo(s2)
              IN  /\ s1.undoStack[activeTab][1] = DivHi
                  /\ s2.code[activeTab] = DivHi
                  /\ s2.redoStack[activeTab][1] = DivHello
                  /\ s3.code[activeTab] = DivHello

(* the scenario of C1 as a run: <div>hi</div> typed, <div>hello</div> typed, undone *)
C1_Witness ==
    /\ activeAppView = "editor"
    /\ activeTab = "html"
    /\ code["html"] = DivHi
    /\ undoStack["html"] = << <<>> >>
    /\ redoStack["html"] = <<DivHello>>
    /\ editorUpdateKey = 1

(* C2: in every reachable state whose active document has a non-empty undo *)
(* stack, undo followed at once by redo gives back the text there was      *)
(* before the undo.                                                        *)
C2_UndoRedoRestoresText ==
    (activeAppView = "editor" /\ Len(undoStack[activeTab]) > 0) =>
        handleRedo(handleUndo(St)).code[activeTab] = code[activeTab]

(* an undo has run on a full history: redo is pending, more undo is left *)
C2_Witness ==
    /\ activeAppView = "editor"
    /\ Len(undoStack[activeTab]) = MAX_UNDO_STACK_SIZE - 1
    /\ Len(redoStack[activeTab]) = 1
    /\ editorUpdateKey = 1

StacksBounded ==
    \A t \in Tabs : /\ Len(undoStack[t]) <= MAX_UNDO_STACK_SIZE
                    /\ Len(redoStack[t]) <= MAX_UNDO_STACK_SIZE

(* C3: each of the six stacks holds at most 50 entries in every state, and *)
(* a commit that pushes onto an undo stack of 50 entries drops the last    *)
(* entry and keeps the other 49, in their order, behind the pushed text.   *)
C3_StacksBoundedEvictOldest ==
    /\ StacksBounded
    /\ [][/\ StacksBounded'
          /\ ( /\ EditorChange(code'[activeTab])
               /\ code'[activeTab] # code[activeTab]
               /\ Len(undoStack[activeTab]) = MAX_UNDO_STACK_SIZE
               /\ undoStack[activeTab][1] # code[activeTab] )
             => undoStack'[activeTab] =
                    <<code[activeTab]>> \o
                        SubSeq(undoStack[activeTab], 1, MAX_UNDO_STACK_SIZE - 1)
         ]_vars

(* 52 characters were typed into a document: its first two texts were evicted *)
C3_Witness ==
    /\ Len(code[activeTab]) = MAX_UNDO_STACK_SIZE + 2
    /\ Len(undoStack[activeTab]) = MAX_UNDO_STACK_SIZE
    /\ undoStack[activeTab][MAX_UNDO_STACK_SIZE] = <<"a", "a">>

(* C4: a commit that changes the active document's text leaves its redo    *)
(* stack empty, so that a redo right after it changes nothing.             *)
C4_EditClearsRedo ==
    [][\A value \in AllTexts :
          (value # code[activeTab] /\ EditorChange(value))
             => /\ redoStack'[activeTab] = <<>>
                /\ handleRedo(St') = St'
      ]_vars

(* <div>hi</div> was typed and undone, then <div>hello</div> was typed *)
C4_Witness ==
    /\ activeAppView = "editor"
    /\ activeTab = "html"
    /\ code = [initialCode EXCEPT !["html"] = DivHello]
    /\ undoStack = [EmptyStacks EXCEPT !["html"] = << <<>> >>]
    /\ redoStack = EmptyStacks
    /\ editorUpdateKey = 1

(* C5: committing the text the active document already has changes         *)
(* nothing (the redo stack is kept), and committing a text twice in a row  *)
(* changes nothing the second time.                                        *)
C5_SameTextNoOp ==
    activeAppView = "editor" =>
        /\ renderEditor(St, code[activeTab]) = St
        /\ \A value \in AllTexts :
              LET s1 == renderEditor(St, value)
              IN  renderEditor(s1, value) = s1

(* a document with both stacks non-empty: a redo stack there is to keep *)
C5_Witness ==
    /\ activeAppView = "editor"
    /\ undoStack[activeTab] # <<>>
    /\ redoStack[activeTab] # <<>>

(* C6: loading a saved project or importing a project file sets the three  *)
(* texts to the project's and empties all six stacks; undo and redo on any *)
(* document then change nothing.                                           *)
C6_LoadClearsHistory ==
    [][\A project \in Projects :
          (LoadProject(project) \/ ImportProject(project))
             => /\ code' = [t \in Tabs |->
                              CASE t = "html" -> project.htmlCode
                                [] t = "css"  -> project.cssCode
                                [] t = "js"   -> project.jsCode]
                /\ undoStack' = EmptyStacks
                /\ redoStack' = EmptyStacks
                /\ \A t \in Tabs :
                      LET s == [St' EXCEPT !.activeTab = t]
                      IN  handleUndo(s) = s /\ handleRedo(s) = s
      ]_vars

(* the second load, import, undo or redo was a load or an import: the *)
(* project's texts are shown and no history is left                    *)
C6_Witness ==
    /\ editorUpdateKey = 2
    /\ activeAppView = "editor"
    /\ activeTab = "html"
    /\ code = [t \in Tabs |-> CASE t = "html" -> DivHi
                                [] t = "css"  -> DivHi
                                [] t = "js"   -> DivHello]
    /\ undoStack = EmptyStacks
    /\ redoStack = EmptyStacks

(* C7: a click on a tab changes the active tab and the search state only:  *)
(* the texts and the stacks of the three documents, the view, the refresh  *)
(* key and the search term stay, and one tab is active before and after.   *)
C7_TabSwitchKeepsDocuments ==
    [][\A tab \in Tabs :
          ClickTab(tab)
             => /\ UNCHANGED <<code, undoStack, redoStack>>
                /\ UNCHANGED <<activeAppView, editorUpdateKey, searchTerm>>
                /\ activeTab \in Tabs
                /\ activeTab' = tab
      ]_vars

(* the js tab was just chosen while html and css have a history *)
C7_Witness ==
    /\ activeTab = "js"
    /\ undoStack["html"] # <<>>
    /\ redoStack["css"] # <<>>
    /\ searchTerm = Div
    /\ searchResults = NoResults
    /\ lastSearchedTerm = <<>>

(* C8: a commit, an undo and a redo leave the text and the stacks of the   *)
(* two inactive documents as they are.                                     *)
C8_InactiveDocumentsUntouched ==
    [][(TypeEdit \/ ClickUndo \/ ClickRedo)
          => \A t \in Tabs \ {activeTab} :
                /\ code'[t] = code[t]
                /\ undoStack'[t] = undoStack[t]
                /\ redoStack'[t] = redoStack[t]
      ]_vars

(* the js document was edited and undone while html and css have a history *)
C8_Witness ==
    /\ activeTab = "js"
    /\ redoStack["js"] # <<>>
    /\ undoStack["html"] # <<>>
    /\ undoStack["css"] # <<>>

(* C9: undo with an empty undo stack and redo with an empty redo stack     *)
(* change nothing: not the text, not a stack, not the refresh key.         *)
C9_EmptyStackNoOp ==
    /\ Len(undoStack[activeTab]) = 0 => handleUndo(St) = St
    /\ Len(redoStack[activeTab]) = 0 => handleRedo(St) = St

(* everything was undone: the undo stack is empty, the redo stack is not *)
C9_Witness ==
    /\ activeAppView = "editor"
    /\ undoStack[activeTab] = <<>>
    /\ redoStack[activeTab] # <<>>
    /\ editorUpdateKey > 0

(* C10: redo with a non-empty redo stack removes the front entry of the    *)
(* redo stack, makes it the text, puts the previous text at the front of   *)
(* the undo stack and raises the refresh key by one.                       *)
C10_RedoEffect ==
    [][(ClickRedo /\ Len(redoStack[activeTab]) > 0)
          => /\ redoStack'[activeTab] = Tail(redoStack[activeTab])
             /\ code'[activeTab] = Head(redoStack[activeTab])
             /\ undoStack'[activeTab] = <<code[activeTab]>> \o undoStack[activeTab]
             /\ editorUpdateKey' = editorUpdateKey + 1
      ]_vars

(* a redo has refilled a history of 50 entries *)
C10_Witness ==
    /\ Len(undoStack[activeTab]) = MAX_UNDO_STACK_SIZE
    /\ Len(code[activeTab]) = MAX_UNDO_STACK_SIZE + 1
    /\ editorUpdateKey = 2

(* C11: a commit of a text other than the active document's makes it the   *)
(* text and empties the redo stack; when the undo stack is not empty and   *)
(* its front is the text the document had, the undo stack stays as it is,  *)
(* otherwise the text the document had is put at its front.                *)
C11_DuplicateGuard ==
    [][\A value \in AllTexts :
          (value # code[activeTab] /\ EditorChange(value))
             => /\ code'[activeTab] = value
                /\ redoStack'[activeTab] = <<>>
                /\ IF /\ Len(undoStack[activeTab]) > 0
                      /\ undoStack[activeTab][1] = code[activeTab]
                   THEN undoStack'[activeTab] = undoStack[activeTab]
                   ELSE undoStack'[activeTab] =
                            <<code[activeTab]>> \o undoStack[activeTab]
      ]_vars

(* a document whose text is at the front of its undo stack, with a redo    *)
(* stack the commit has to empty                                           *)
C11_Witness ==
    /\ Len(undoStack[activeTab]) > 0
    /\ undoStack[activeTab][1] = code[activeTab]
    /\ redoStack[activeTab] # <<>>

Navigations == {"none", "next", "prev"}

(* a and b are the same character, or the two cases of one letter *)
SameLetter(a, b) ==
    \/ a = b
    \/ \E k \in 1..Len(UpperCase) : {a, b} = {UpperCase[k], LowerCase[k]}

(* term occurs in text at offset (counted from 0), whatever the case *)
OccursAt(text, term, offset) ==
    /\ offset >= 0
    /\ offset + Len(term) <= Len(text)
    /\ \A j \in 1..Len(term) : SameLetter(text[offset + j], term[j])

StrictlyAscending(seq) ==
    \A j \in 1..Len(seq), k \in 1..Len(seq) : j < k => seq[j] < seq[k]

(* C12: in every reachable state of the editor view, a search with a term  *)
(* other than the last searched one, or without a direction, leaves a list *)
(* of strictly ascending offsets, each the start of an occurrence of the   *)
(* term in the active document's text whatever the case, and selects index *)
(* 0 when the list is not empty and -1 when it is; div in <div><div> gives *)
(* the list 1, 6.                                                          *)
C12_SearchRecomputes ==
    activeAppView = "editor" =>
        /\ \A navigation \in Navigations :
              (searchTerm # lastSearchedTerm \/ navigation = "none") =>
                LET r == handleSearch(St, navigation).searchResults
                IN  /\ StrictlyAscending(r.indices)
                    /\ \A k \in 1..Len(r.indices) :
                          OccursAt(code[activeTab], searchTerm, r.indices[k])
                    /\ r.currentResultIndex = IF Len(r.indices) > 0 THEN 0 ELSE -1
        /\ (code[activeTab] = DivDiv /\ searchTerm = Div) =>
              handleSearch(St, "none").searchResults =
                  [indices |-> <<1, 6>>, currentResultIndex |-> 0]

(* div was searched in the css document <div><div> while html holds AAa *)
C12_Witness ==
    /\ activeTab = "css"
    /\ code["css"] = DivDiv
    /\ code["html"] = AAa
    /\ searchTerm = Div
    /\ lastSearchedTerm = Div
    /\ searchResults = [indices |-> <<1, 6>>, currentResultIndex |-> 0]

(* C13: any two recorded matches are at least the length of the searched   *)
(* term apart: the scan goes on from the end of the match found before.    *)
C13_MatchesNeverOverlap ==
    \A j \in 1..Len(searchResults.indices), k \in 1..Len(searchResults.indices) :
        j < k => searchResults.indices[k] - searchResults.indices[j]
                     >= Len(lastSearchedTerm)

(* next called k times *)
RECURSIVE nextTimes(_, _)
nextTimes(s, k) == IF k = 0 THEN s ELSE nextTimes(handleSearch(s, "next"), k - 1)

(* next and prev move the selected index modulo n and change nothing else *)
NavigationMoves ==
    LET n == Len(searchResults.indices)
        i == searchResults.currentResultIndex
        next == handleSearch(St, "next")
    IN  /\ next = [St EXCEPT !.searchResults.currentResultIndex = (i + 1) % n]
        /\ handleSearch(St, "prev") =
               [St EXCEPT !.searchResults.currentResultIndex = (i - 1 + n) % n]
        /\ handleSearch(next, "prev") = St
        /\ nextTimes(St, n) = St

C15_SelectedIsOccurrence ==
    activeAppView = "editor" =>
        \A navigation \in Navigations :
            LET r == handleSearch(St, navigation)
                selected == r.searchResults.currentResultIndex
            IN  (/\ navigation # "none" => Len(searchResults.indices) > 0
                 /\ selected >= 0)
                    => OccursAt(r.code[r.activeTab], r.searchTerm,
                                r.searchResults.indices[selected + 1])

(* C16: at most one timeout of the preview is pending; every step that     *)
(* changes a text leaves one timeout, just started; a timeout runs only    *)
(* when its delay has passed in full since it was started, it composes the *)
(* preview from the three texts of that moment and leaves no timeout       *)
(* pending, so the changes made within one delay are followed by one       *)
(* recomputation at most; after the teardown no timeout is pending and the *)
(* preview does not change.                                                *)
C16_PreviewDebounce ==
    /\ Cardinality(previewTimers) <= 1
    /\ ~mounted => previewTimers = {}
    /\ [][/\ code' # code =>
                previewTimers' = {[code |-> code', elapsed |-> 0]}
          /\ PreviewTimeout =>
                /\ \A timer \in previewTimers : timer.elapsed >= PreviewDelay
                /\ srcDoc' = composeSrcDoc(code)
                /\ previewTimers' = {}
          /\ srcDoc' # srcDoc => PreviewTimeout
          /\ ~mounted => srcDoc' = srcDoc
         ]_vars

(* two edits of the html document, one recomputation, then the teardown *)
C16_Witness ==
    /\ ~mounted
    /\ Len(undoStack["html"]) = 2
    /\ srcDoc = composeSrcDoc(code)

(* C17: in every reachable state of the editor view, an input that commits *)
(* another text than the active document's causes no render of the         *)
(* element during the update: the element keeps the markup the user's edit *)
(* left, since the text it reports is the one lastValueRef already holds.  *)
C17_NoRenderOnUserInput ==
    (activeAppView = "editor" /\ ~isComposingRef) =>
        \A value \in AllTexts :
            value # code[activeTab] =>
                LET r == renderEffects(St, handleInput(userEdit(St, value)))
                IN  /\ r.lastValueRef = value
                    /\ r.editorDiv = [textContent |-> value, highlighted |-> FALSE]

(* C18: an input event during a composition changes no text and no stack   *)
(* and leaves the composition in progress; the end of the composition      *)
(* commits the text of the element as one edit: it becomes the active      *)
(* document's text, its undo stack grows by one entry at most, the other   *)
(* documents stay as they are and the composition is over.                 *)
C18_CompositionBuffered ==
    [][/\ (isComposingRef /\ \E value \in AllTexts : EditorChange(value))
             => /\ UNCHANGED <<code, undoStack, redoStack>>
                /\ isComposingRef'
       /\ CompositionEnd
             => /\ code'[activeTab] = editorDiv.textContent
                /\ ~isComposingRef'
                /\ Len(undoStack'[activeTab]) <= Len(undoStack[activeTab]) + 1
                /\ Len(undoStack'[activeTab]) >= Len(undoStack[activeTab])
                /\ \A t \in Tabs \ {activeTab} :
                      /\ code'[t] = code[t]
                      /\ undoStack'[t] = undoStack[t]
                      /\ redoStack'[t] = redoStack[t]
      ]_vars

(* a composition is in progress: the element holds a text that is not yet  *)
(* the document's                                                          *)
C18_Witness ==
    /\ isComposingRef
    /\ editorDiv = [textContent |-> DivHello, highlighted |-> FALSE]
    /\ code[activeTab] = <<>>
    /\ undoStack[activeTab] = <<>>

(* C19: in every reachable state of the editor view, a click on another    *)
(* tab renders the element from that document's text, which lastValueRef   *)
(* then holds, and leaves no composition in progress: the next input on    *)
(* the new document is committed.                                          *)
C19_TabSwitchResetsEditor ==
    activeAppView = "editor" =>
        \A tab \in Tabs \ {activeTab} :
            LET r == renderEffects(St, tabOnClick(St, tab))
            IN  /\ r.lastValueRef = r.code[tab]
                /\ r.editorDiv = [textContent |-> r.code[tab], highlighted |-> TRUE]
                /\ ~r.isComposingRef
                /\ \A value \in AllTexts :
                      handleInput(userEdit(r, value)).code[tab] = value

(* C20: in every reachable state, the import of a project file with any of *)
(* the three elements missing goes through: the text of a document is the  *)
(* content of its element when the file has it and empty when it has not,  *)
(* all six stacks are empty, and the html tab of the editor view is shown. *)
C20_ImportMissingElements ==
    \A doc \in ProjectFiles :
        LET r == importProjectFile(St, doc)
            expect(id) == IF doc[id].found THEN doc[id].content ELSE <<>>
        IN  /\ r.code["html"] = expect("project-html-content")
            /\ r.code["css"] = expect("project-css")
            /\ r.code["js"] = expect("project-js")
            /\ r.undoStack = EmptyStacks
            /\ r.redoStack = EmptyStacks
            /\ r.activeTab = "html"
            /\ r.activeAppView = "editor"
            /\ r.editorUpdateKey = editorUpdateKey + 1

(* two files were imported, the second without the css element or with an *)
(* empty one: no text and no history of the first is left                 *)
C20_Witness ==
    /\ editorUpdateKey = 2
    /\ code = [t \in Tabs |-> IF t = "css" THEN <<>> ELSE DivHi]
    /\ undoStack = EmptyStacks
    /\ redoStack = EmptyStacks
    /\ activeTab = "html"

AdjacentDiffer(stack) ==
    \A j \in 1..(Len(stack) - 1) : stack[j] # stack[j + 1]

(* C26: in every reachable state, the undo stack and the redo stack of a   *)
(* document hold at most 50 entries together; the truncation to 50 in undo *)
(* and in redo then drops nothing: undo puts the text in front of the      *)
(* whole redo stack, redo in front of the whole undo stack.                *)
C26_HistoryAtMostFifty ==
    /\ \A t \in Tabs :
          Len(undoStack[t]) + Len(redoStack[t]) <= MAX_UNDO_STACK_SIZE
    /\ Len(undoStack[activeTab]) > 0 =>
          handleUndo(St).redoStack[activeTab] =
              <<code[activeTab]>> \o redoStack[activeTab]
    /\ Len(redoStack[activeTab]) > 0 =>
          handleRedo(St).undoStack[activeTab] =
              <<code[activeTab]>> \o undoStack[activeTab]

(* 52 characters typed, three of them undone: 47 and 3 entries *)
C26_Witness ==
    /\ Len(undoStack[activeTab]) = MAX_UNDO_STACK_SIZE - 3
    /\ Len(redoStack[activeTab]) = 3
    /\ Len(code[activeTab]) = MAX_UNDO_STACK_SIZE - 1

(* C27: in every reachable state and for every document, the front of the  *)
(* undo stack and the front of the redo stack differ from the text, and no *)
(* stack holds two equal entries next to each other; so an undo or a redo  *)
(* on a non-empty stack changes the text, and a commit never finds the     *)
(* text at the front of the undo stack.                                    *)
C27_NoDuplicateSnapshots ==
    /\ \A t \in Tabs :
          /\ Len(undoStack[t]) > 0 => undoStack[t][1] # code[t]
          /\ Len(redoStack[t]) > 0 => redoStack[t][1] # code[t]
          /\ AdjacentDiffer(undoStack[t])
          /\ AdjacentDiffer(redoStack[t])
    /\ Len(undoStack[activeTab]) > 0 =>
          handleUndo(St).code[activeTab] # code[activeTab]
    /\ Len(redoStack[activeTab]) > 0 =>
          handleRedo(St).code[activeTab] # code[activeTab]
    /\ \A value \in AllTexts :
          value # code[activeTab] =>
              renderEditor(St, value).undoStack[activeTab] =
                  slice0(<<code[activeTab]>> \o undoStack[activeTab],
                         MAX_UNDO_STACK_SIZE)

(* <div>hello</div> and <div>hi</div> typed into the css document, one    *)
(* undo, while html has <div>hi</div> typed and undone                     *)
C27_Witness ==
    /\ activeTab = "css"
    /\ code["css"] = DivHello
    /\ undoStack["css"] = << <<>> >>
    /\ redoStack["css"] = <<DivHi>>
    /\ code["html"] = <<>>
    /\ redoStack["html"] = <<DivHi>>

RECURSIVE undoTimes(_, _)
undoTimes(s, k) ==
    IF k = 0 THEN s
    ELSE LET next == handleUndo(s)
         IN  IF next = s THEN s ELSE undoTimes(next, k - 1)

RECURSIVE redoTimes(_, _)
redoTimes(s, k) ==
    IF k = 0 THEN s
    ELSE LET next == handleRedo(s)
         IN  IF next = s THEN s ELSE redoTimes(next, k - 1)

(* C28: in every state reached by n commits (1 <= n <= 50) from the empty  *)
(* history, k undos (k <= n) leave the text of the commit n - k, and k     *)
(* redos after them give back the text and the two stacks there were.      *)
C28_UndosThenRedos ==
    ( /\ editorUpdateKey = 0
      /\ Len(undoStack[activeTab]) > 0
      /\ Len(code[activeTab]) <= MAX_UNDO_STACK_SIZE )
        => \A k \in 1..Len(undoStack[activeTab]) :
              LET undone == undoTimes(St, k)
                  redone == redoTimes(undone, k)
              IN  /\ undone.code[activeTab] = undoStack[activeTab][k]
                  /\ Len(undone.code[activeTab]) = Len(code[activeTab]) - k
                  /\ redone.code = code
                  /\ redone.undoStack = undoStack
                  /\ redone.redoStack = redoStack

(* 50 commits, then one undo and one redo *)
C28_Witness ==
    /\ editorUpdateKey = 2
    /\ Len(code[activeTab]) = MAX_UNDO_STACK_SIZE
    /\ Len(undoStack[activeTab]) = MAX_UNDO_STACK_SIZE
    /\ redoStack[activeTab] = <<>>

(* C29: in every reachable state the selected index is -1 when the list of *)
(* matches is empty and an index of the list (from 0) when it is not.      *)
C29_SearchIndexConsistent ==
    LET n == Len(searchResults.indices)
        i == searchResults.currentResultIndex
    IN  IF n = 0 THEN i = -1 ELSE 0 <= i /\ i < n

(* prev from the first of the two overlapping matches of aa in AAa *)
C29_Witness ==
    /\ code[activeTab] = AAa
    /\ lastSearchedTerm = Aa
    /\ searchResults = [indices |-> <<0, 1>>, currentResultIndex |-> 1]

CodeValues == [Tabs -> AllTexts]

(* C30: when from some moment on the component stays mounted and the three *)
(* texts stay as they are, the preview becomes the document composed from  *)
(* these texts, and stays so.                                              *)
C30_PreviewEventuallyFresh ==
    \A c \in CodeValues :
        <>[](mounted /\ code = c) => <>[](srcDoc = composeSrcDoc(c))

(* the preview shows the document of the two texts typed, no timeout is    *)
(* pending                                                                 *)
C30_Witness ==
    /\ mounted
    /\ code["html"] = DivHello
    /\ Len(undoStack["html"]) = 2
    /\ previewTimers = {}
    /\ srcDoc = composeSrcDoc(code)

(* C21: a failed clipboard read drops the paste.  In every state with a    *)
(* read pending, the rejection commits nothing and leaves every document's *)
(* text, undo stack and redo stack, the refresh key and the element as     *)
(* they are; the key press that started the read changes none of them      *)
(* either; and a commit, an undo or a redo gives the same result before    *)
(* the failure, after it, and in the state where no paste was attempted.   *)
NeverPasted(s) == [s EXCEPT !.clipboardReads = 0]

C21_FailedPasteDropped ==
    /\ NeverPasted(renderEffects(St, handleKeyDown(St, "v"))) = NeverPasted(St)
    /\ clipboardReads > 0 =>
          LET failed == renderEffects(St, readTextCatch(St))
          IN  /\ failed = [St EXCEPT !.clipboardReads = @ - 1]
              /\ \A value \in AllTexts :
                    /\ NeverPasted(handleInput(userEdit(failed, value)))
                         = NeverPasted(handleInput(userEdit(NeverPasted(St), value)))
                    /\ readTextCatch(handleInput(userEdit(St, value)))
                         = handleInput(userEdit(failed, value))
              /\ NeverPasted(handleUndo(failed)) = handleUndo(NeverPasted(St))
              /\ NeverPasted(handleRedo(failed)) = handleRedo(NeverPasted(St))
              /\ readTextCatch(handleUndo(St)) = handleUndo(failed)
              /\ readTextCatch(handleRedo(St)) = handleRedo(failed)

C21_Witness ==
    /\ clipboardReads = 1
    /\ code["html"] = DivHello
    /\ undoStack["html"] = << <<>> >>
    /\ redoStack["html"] = <<DivHi>>

(* The markup is flat: every tag is a whole opening tag of a category     *)
(* span, a closing tag of a span or a line break, the text between the     *)
(* tags holds none of the characters of a tag, and a span is closed before *)
(* the next one opens.                                                     *)
OpenTags == {SpanOpen \o tokenColors[c] \o SpanOpenEnd : c \in DOMAIN tokenColors}

FlatMarkup(markup) ==
    LET toks == markupTokens(markup, 1)
        opened(k) == Cardinality({j \in 1..k : toks[j].chars \in OpenTags})
        closed(k) == Cardinality({j \in 1..k : toks[j].chars = SpanClose})
    IN  /\ \A k \in 1..Len(toks) :
              /\ toks[k].tag => toks[k].chars \in OpenTags \cup {SpanClose, LineBreak}
              /\ ~toks[k].tag =>
                    \A j \in 1..Len(toks[k].chars) :
                        toks[k].chars[j] \notin {"<", ">", "\""}
              /\ opened(k) - closed(k) \in {0, 1}
        /\ opened(Len(toks)) = closed(Len(toks))

(* The parser reads the markup as it is written: it is flat and every     *)
(* ampersand of its text starts a whole entity.                            *)
ReadAsWritten(markup) ==
    /\ FlatMarkup(markup)
    /\ \A j \in 1..Len(markup) : markup[j] = "&" => entityAt(markup, j) # {}

(* the selections captured before a render: a text node with its text and *)
(* an offset in it                                                         *)
Carets ==
    {[container |-> TRUE, textNode |-> TRUE, text |-> t, offset |-> o] :
        t \in {<<"h", "i">>, <<"z">>}, o \in {0, 1, 3}}

(* where the caret is to be after an external change *)
expectedCaret(markup, captured) ==
    LET nodes == textNodes(markup)
        found == findTextNode(nodes, captured.text)
        length == Len(nodes[found])
    IN  IF found > 0
        THEN nodeStart(nodes, found)
                 + (IF captured.offset < length THEN captured.offset ELSE length)
        ELSE IF captured.offset # 0 THEN firstChildLength(markup) ELSE 0

(* C22: after an external text change has been rendered, the caret that   *)
(* was captured before the render is restored: it is at the smaller of the *)
(* captured offset and the length of the node, in the first rendered text  *)
(* node that contains the captured node's text, and without such a node at *)
(* the end of the first child if the captured offset was not zero and at   *)
(* its start if it was zero; both after the restoration itself and when    *)
(* the update is complete.                                                 *)
C22_CaretRestored ==
    (/\ highlighting.pc = "returned"
     /\ highlighting.highlightedText # <<>>
     /\ ReadAsWritten(highlighting.highlightedText))
        => \A captured \in Carets :
               LET markup == highlighting.highlightedText
               IN  /\ restoreCaret(markup, captured) = expectedCaret(markup, captured)
                   /\ caretAfterUpdate(markup, captured) = expectedCaret(markup, captured)

(* the markup with its span tags removed, its line breaks turned back     *)
(* into newlines and its entities read back                                *)
isSpanTag(token) ==
    /\ token.tag
    /\ \/ startsWith(token.chars, 1, SpanStart)
       \/ startsWith(token.chars, 1, <<"<","/","s","p","a","n">>)

readBack(markup) ==
    LET toks == markupTokens(markup, 1)
    IN  unescapeHtml(
            concat([k \in 1..Len(toks) |->
                       IF isSpanTag(toks[k]) THEN <<>>
                       ELSE IF toks[k].chars = LineBreak THEN <<"\n">>
                       ELSE toks[k].chars]), 1)

(* C23: when applySyntaxHighlighting has returned, its result with the    *)
(* span tags removed, the line-break markers turned back into newlines and *)
(* the entities read back as their characters is the text it was called    *)
(* with.                                                                   *)
C23_HighlightRoundTrip ==
    highlighting.pc = "returned" =>
        readBack(highlighting.highlightedText) = highlighting.text

(* C24: at every step of applySyntaxHighlighting the category spans are   *)
(* flat: no rule has wrapped a part of a span that an earlier rule         *)
(* inserted, neither its text nor the characters of its tags.              *)
C24_SpansNeverNest == FlatMarkup(highlighting.highlightedText)

(* C25: when the element shows the markup rendered from a text with       *)
(* newlines and the user inserts characters at its end, the text that      *)
(* handleInput reads from the element and commits is the rendered text     *)
(* followed by the inserted characters, every newline included.            *)
Inserted == {<<"c">>, <<"c", "d">>}

C25_LineBreaksSurviveInput ==
    (/\ highlighting.pc = "returned"
     /\ \E k \in 1..Len(highlighting.text) : highlighting.text[k] = "\n"
     /\ ReadAsWritten(highlighting.highlightedText))
        => \A s \in Inserted :
               LET surface == textContent(highlighting.highlightedText) \o s
               IN  handleInput(userEdit(St, surface)).code[activeTab]
                       = highlighting.text \o s

====
